---- MODULE Spec2Model ----
(***************************************************************************)
(* Greenhouse Modbus field-device simulator: the register map             *)
(* (server/data_model.py), the fan controller (server/fan.py), the sensor *)
(* simulator (server/sensors.py) and the driver loop (server/main.py).    *)
(*                                                                         *)
(* The store is the pyModbusTCP DataBank: four banks, every single access *)
(* taken under the bank's own lock, register values kept as 16-bit words. *)
(* A handler (FanController.update, SensorSimulator.update) is a sequence *)
(* of such accesses; FanStep/SensorStep give one access at a time, and    *)
(* RunFan/RunSensors run a handler to its end.                             *)
(*   SpecFan, SpecSensors : the API used sequentially, one whole call per *)
(*             step, as the tests under src/tests use it (random.randint  *)
(*             may be monkeypatched there);                             *)
(*   Spec    : main(): the background loop thread, one store access per   *)
(*             step, interleaved with Modbus clients.                      *)
(***************************************************************************)
EXTENDS Integers, FiniteSets, Sequences, TLC

VARIABLES ir, hr, co, di, loc, pc, rand, op, ret, is_run, main_pc, seen,
          call, last, unseen, own

(* ir, hr, co, di : the banks of the DataBank the instances share;         *)
(* own            : the DataBank an instance has made for itself, if any;  *)
(* loc, pc        : the running handler's locals and position;             *)
(* op, call, ret  : the last call of the API, its arguments and outcome;   *)
(* seen           : what a polling client read last;                       *)
(* last           : per cell, the last write made through an instance;     *)
(* unseen         : a client has set the alarm-reset coil and the          *)
(*                  controller has not read it since.                      *)
vars == <<ir, hr, co, di, loc, pc, rand, op, ret, is_run, main_pc, seen,
          call, last, unseen, own>>

----------------------------------------------------------------------------
(* Address map: class Addresses *)
IR_AIRFLOW == 0
IR_TEMPERATURE == 1
IR_HUMIDITY == 2
IR_FAN_RPM == 3
IR_FAN_STATE == 4

HR_AIRFLOW_SP == 0
HR_TEMPERATURE_SP == 1
HR_FAN_MODE_CMD == 2
HR_FAN_RPM_SP == 3
HR_SIM_ENABLE == 4

COIL_FAN_ENABLE == 0
COIL_FAN_HIGH_REQ == 1
COIL_ALARM_RESET == 2

DI_FAN_FAULT == 0
DI_FILTER_DIRTY == 1
DI_FAN_RUNNING == 2

(* The cells _init_banks writes: [0] * 32 and [False] * 16 from address 0 *)
NumRegisters == 32
NumBits == 16

(* A register cell is a 16-bit word. *)
WordModulus == 65536

----------------------------------------------------------------------------
(* Bounds of the model *)

(* A DataBank holds 65536 cells per bank, whatever _init_banks writes: the *)
(* model keeps the cells _init_banks writes and SpareCells cells past     *)
(* them.                                                                   *)
SpareCells == 1

(* randint(a, b) is sampled at a, at b and at every value within          *)
(* JitterSpread of zero.                                                   *)
JitterSpread == 0

(* Values a Modbus client writes to the holding registers the code reads. *)
ModeValues == {0, 1, 2, 3, 65535}
RpmSpValues == {0, 160, 500, 800, 900, 65535}
SimEnableValues == {0, 1, 2, 65535}

(* What the tests' replacement for random.randint returns. *)
MockValues == {-300, -100, 0, 5, 100}

Max(a, b) == IF a >= b THEN a ELSE b
Min(a, b) == IF a <= b THEN a ELSE b

----------------------------------------------------------------------------
(* The machine: the four banks, the running handler's position and locals *)

Mach == [ir |-> ir, hr |-> hr, co |-> co, di |-> di, loc |-> loc, pc |-> pc]

Install(m) ==
    /\ ir' = m.ir
    /\ hr' = m.hr
    /\ co' = m.co
    /\ di' = m.di
    /\ loc' = m.loc
    /\ pc' = m.pc

(* DataBank keeps int(w) & 0xffff of every word it is given. *)
Word(v) == v % WordModulus

(* Generic helpers of DataModel; a write outside the bank changes nothing. *)
read_input(m, addr) == m.ir[addr]

write_input(m, addr, value) ==
    IF addr \in DOMAIN m.ir THEN [m EXCEPT !.ir[addr] = Word(value)] ELSE m

read_holding(m, addr) == m.hr[addr]

write_holding(m, addr, value) ==
    IF addr \in DOMAIN m.hr THEN [m EXCEPT !.hr[addr] = Word(value)] ELSE m

read_coil(m, addr) == m.co[addr]

write_coil(m, addr, value) ==
    IF addr \in DOMAIN m.co THEN [m EXCEPT !.co[addr] = value] ELSE m

read_di(m, addr) == m.di[addr]

write_di(m, addr, value) ==
    IF addr \in DOMAIN m.di THEN [m EXCEPT !.di[addr] = value] ELSE m

(* The same helpers by bank. *)
Banks == {"input", "holding", "coil", "di"}

Cells(m, bank) ==
    CASE bank = "input" -> m.ir
      [] bank = "holding" -> m.hr
      [] bank = "coil" -> m.co
      [] OTHER -> m.di

(* if not vals: raise IndexError(addr): the DataBank returns None for an   *)
(* address outside the bank.                                               *)
raises_IndexError(m, bank, addr) == addr \notin DOMAIN Cells(m, bank)

read(m, bank, addr) ==
    CASE bank = "input" -> read_input(m, addr)
      [] bank = "holding" -> read_holding(m, addr)
      [] bank = "coil" -> read_coil(m, addr)
      [] OTHER -> read_di(m, addr)

write(m, bank, addr, value) ==
    CASE bank = "input" -> write_input(m, addr, value)
      [] bank = "holding" -> write_holding(m, addr, value)
      [] bank = "coil" -> write_coil(m, addr, value)
      [] OTHER -> write_di(m, addr, value)

(* random.randint(a, b), by the source of randomness of the run:          *)
(*   "random" : any integer of a..b, sampled at a, at b and around 0;      *)
(*   "mock"   : the tests' monkeypatch: whatever the mock returns,          *)
(*              whatever a and b are;                                      *)
(*   "centre" : a..b sampled at 0 alone (the interleaved runs, where no    *)
(*              property depends on the value drawn).                      *)
randint(a, b, source) ==
    CASE source = "mock" -> MockValues
      [] source = "random" ->
           {x \in a..b : x \in {a, b} \/ (x >= -JitterSpread /\ x <= JitterSpread)}
      [] OTHER -> {x \in a..b : x = 0}

----------------------------------------------------------------------------
(* FanController.update *)

NoLocals ==
    [state |-> 0, rpm_sp |-> 0, rpm_actual |-> 0, jitter |-> 0, fault |-> FALSE,
     consumed |-> FALSE,
     s_state |-> 0, temp |-> 0, humidity |-> 0, airflow_actual |-> 0,
     dirty |-> FALSE, jt |-> 0, jh |-> 0, ja |-> 0]

(* Mutant: a mode command of 3 taken for a state too. *)
mode_overrides_up_to_3(mode_cmd) == mode_cmd \in {1, 2, 3}

(* Mutant: any non-zero mode command taken as an override. *)
mode_overrides_nonzero(mode_cmd) == mode_cmd >= 1

(* mode_cmd in (1, 2) *)
mode_overrides(mode_cmd) == mode_cmd \in {1, 2}

(* state = 2 if fan_high_requested() else 1 *)
fallback_state(high) == IF high THEN 2 ELSE 1

(* The randint range of the RPM jitter of a running state. *)
rpm_jitter_bound(state) == IF state = 1 THEN 10 ELSE 15

(* rpm_actual by state; int(rpm_sp * 0.6) equals (rpm_sp * 6) \div 10 for  *)
(* every rpm_sp of 0..65535 in IEEE double arithmetic.                     *)
rpm_actual_of(state, rpm_sp, j) ==
    IF state = 0 THEN 0
    ELSE IF state = 1 THEN ((rpm_sp * 6) \div 10) + j
    ELSE rpm_sp + j

(* Mutant: the fault raised on low RPM alone, the fan state ignored. *)
fault_of_any_state(state, rpm_actual) == rpm_actual < 100

(* fault = state > 0 and rpm_actual < 100 *)
fault_of(state, rpm_actual) == state > 0 /\ rpm_actual < 100

(* Mutant: the running bit set for HIGH only. *)
running_of_high_only(state) == state > 1

(* DI fan running bit: state > 0 *)
running_of(state) == state > 0

(* Mutant: the state register written and the running bit left alone. *)
set_fan_state_state_only(m, state, next) ==
    CASE m.pc = "set_fan_state" ->
           { [write_input(m, IR_FAN_STATE, state)
                EXCEPT !.pc = "set_fan_running"] }
      [] m.pc = "set_fan_running" ->
           { [m EXCEPT !.pc = next] }
      [] OTHER -> {}

(* DataModel.set_fan_state: the write of the state register, then the     *)
(* write of the running bit: two accesses of the store.                    *)
set_fan_state(m, state, next) ==
    CASE m.pc = "set_fan_state" ->
           { [write_input(m, IR_FAN_STATE, state)
                EXCEPT !.pc = "set_fan_running"] }
      [] m.pc = "set_fan_running" ->
           { [write_di(m, DI_FAN_RUNNING, running_of(state))
                EXCEPT !.pc = next] }
      [] OTHER -> {}

(* Mutant: the coil reported but never cleared. *)
consume_alarm_reset_no_clear(m, on_true, on_false) ==
    CASE m.pc = "consume_alarm_reset" ->
           { IF read_coil(m, COIL_ALARM_RESET)
             THEN [m EXCEPT !.loc.consumed = TRUE, !.pc = on_true]
             ELSE [m EXCEPT !.loc.consumed = FALSE, !.pc = on_false] }
      [] OTHER -> {}

(* Mutant: the clearing write made to the fan-high-request coil. *)
consume_alarm_reset_wrong_coil(m, on_true, on_false) ==
    CASE m.pc = "consume_alarm_reset" ->
           { IF read_coil(m, COIL_ALARM_RESET)
             THEN [m EXCEPT !.pc = "clear_alarm_reset"]
             ELSE [m EXCEPT !.loc.consumed = FALSE, !.pc = on_false] }
      [] m.pc = "clear_alarm_reset" ->
           { [write_coil(m, COIL_FAN_HIGH_REQ, FALSE)
                EXCEPT !.loc.consumed = TRUE, !.pc = on_true] }
      [] OTHER -> {}

(* Mutant: the coil consumed only while the fan-enable coil is true. *)
consume_alarm_reset_when_enabled(m, on_true, on_false) ==
    CASE m.pc = "consume_alarm_reset" ->
           { IF read_coil(m, COIL_ALARM_RESET) /\ read_coil(m, COIL_FAN_ENABLE)
             THEN [m EXCEPT !.pc = "clear_alarm_reset"]
             ELSE [m EXCEPT !.loc.consumed = FALSE, !.pc = on_false] }
      [] m.pc = "clear_alarm_reset" ->
           { [write_coil(m, COIL_ALARM_RESET, FALSE)
                EXCEPT !.loc.consumed = TRUE, !.pc = on_true] }
      [] OTHER -> {}

(* DataModel.consume_alarm_reset: the read of the coil, then, when it was *)
(* true, the write that clears it; on_true and on_false are where the     *)
(* caller goes on with the value returned.                                 *)
consume_alarm_reset(m, on_true, on_false) ==
    CASE m.pc = "consume_alarm_reset" ->
           { IF read_coil(m, COIL_ALARM_RESET)
             THEN [m EXCEPT !.pc = "clear_alarm_reset"]
             ELSE [m EXCEPT !.loc.consumed = FALSE, !.pc = on_false] }
      [] m.pc = "clear_alarm_reset" ->
           { [write_coil(m, COIL_ALARM_RESET, FALSE)
                EXCEPT !.loc.consumed = TRUE, !.pc = on_true] }
      [] OTHER -> {}

(* Mutant: the fault left as derived when the reset was consumed. *)
after_consume_keep_fault(consumed) == "fan_done"

(* Mutant: the fault forced false by every update. *)
after_consume_always_reset(consumed) == "reset_fault"

(* if self.model.consume_alarm_reset(): self.model.set_fault(False) *)
after_consume(consumed) == IF consumed THEN "reset_fault" ELSE "fan_done"

(* One store access of FanController.update (with the local computation   *)
(* that follows it): the machines it can lead to.                          *)
FanSteps(m, source) ==
    CASE m.pc = "fan_enable" ->
           { IF ~read_coil(m, COIL_FAN_ENABLE)
             THEN [m EXCEPT !.loc.state = 0, !.pc = "set_fan_state"]
             ELSE [m EXCEPT !.pc = "get_fan_mode_cmd"] }
      [] m.pc = "get_fan_mode_cmd" ->
           { LET mode_cmd == read_holding(m, HR_FAN_MODE_CMD)
             IN  IF mode_overrides(mode_cmd)
                 THEN [m EXCEPT !.loc.state = mode_cmd, !.pc = "set_fan_state"]
                 ELSE [m EXCEPT !.pc = "fan_high_requested"] }
      [] m.pc = "fan_high_requested" ->
           { [m EXCEPT !.loc.state = fallback_state(read_coil(m, COIL_FAN_HIGH_REQ)),
                       !.pc = "set_fan_state"] }
      [] m.pc \in {"set_fan_state", "set_fan_running"} ->
           set_fan_state(m, m.loc.state, "get_fan_rpm_sp")
      [] m.pc = "get_fan_rpm_sp" ->
           LET rpm_sp == read_holding(m, HR_FAN_RPM_SP)
               st == m.loc.state
               draws == IF st = 0 THEN {0}
                        ELSE randint(-rpm_jitter_bound(st), rpm_jitter_bound(st), source)
           IN  { [m EXCEPT !.loc.rpm_sp = rpm_sp,
                           !.loc.jitter = j,
                           !.loc.rpm_actual = rpm_actual_of(st, rpm_sp, j),
                           !.pc = "set_fan_rpm"] : j \in draws }
      [] m.pc = "set_fan_rpm" ->
           { [write_input(m, IR_FAN_RPM, Max(0, m.loc.rpm_actual))
                EXCEPT !.loc.fault = fault_of(m.loc.state, m.loc.rpm_actual),
                       !.pc = "set_fault"] }
      [] m.pc = "set_fault" ->
           { [write_di(m, DI_FAN_FAULT, m.loc.fault)
                EXCEPT !.pc = "consume_alarm_reset"] }
      [] m.pc \in {"consume_alarm_reset", "clear_alarm_reset"} ->
           consume_alarm_reset(m, after_consume(TRUE), after_consume(FALSE))
      [] m.pc = "reset_fault" ->
           { [write_di(m, DI_FAN_FAULT, FALSE) EXCEPT !.pc = "fan_done"] }
      [] OTHER -> {}

FanPcs ==
    {"fan_enable", "get_fan_mode_cmd", "fan_high_requested", "set_fan_state",
     "set_fan_running", "get_fan_rpm_sp", "set_fan_rpm", "set_fault",
     "consume_alarm_reset", "clear_alarm_reset", "reset_fault"}

(* Entry of update(): fresh locals. *)
FanEntry(m) ==
    [m EXCEPT !.pc = "fan_enable",
              !.loc.state = 0, !.loc.rpm_sp = 0, !.loc.rpm_actual = 0,
              !.loc.jitter = 0, !.loc.fault = FALSE, !.loc.consumed = FALSE]

RECURSIVE RunFan(_, _)
RunFan(m, source) ==
    IF m.pc = "fan_done" THEN {m}
    ELSE UNION {RunFan(n, source) : n \in FanSteps(m, source)}

----------------------------------------------------------------------------
(* SensorSimulator.update *)

(* Mutant: the test of the flag inverted. *)
get_sim_enabled_inverted(m) == read_holding(m, HR_SIM_ENABLE) = 0

(* Mutant: every non-zero value of the flag taken as enabled. *)
get_sim_enabled_nonzero(m) == read_holding(m, HR_SIM_ENABLE) # 0

(* get_sim_enabled: read_holding(HR_SIM_ENABLE) == 1 *)
get_sim_enabled(m) == read_holding(m, HR_SIM_ENABLE) = 1

(* Mutant: the temperature written without the clamp. *)
temperature_of_unclamped(state, j) ==
    225 + (IF state = 0 THEN 30 ELSE -5 * state) + j

(* temp = base + delta + jitter, clamped: max(150, min(300, temp)) *)
temperature_of(state, j) ==
    LET base == 225
        delta == IF state = 0 THEN 30 ELSE -5 * state
    IN  Max(150, Min(300, base + delta + j))

(* humidity = 500 + jitter *)
humidity_of(j) == 500 + j

(* Mutant: the LOW airflow target below the dirty threshold. *)
airflow_target_low_90(state) ==
    IF state = 0 THEN 0 ELSE IF state = 1 THEN 90 ELSE 350

airflow_target(state) ==
    IF state = 0 THEN 0 ELSE IF state = 1 THEN 200 ELSE 350

(* Mutant: the airflow written without the floor at 0. *)
airflow_of_unfloored(state, j) == airflow_target(state) + j

(* airflow_actual = max(0, airflow_target + jitter) *)
airflow_of(state, j) == Max(0, airflow_target(state) + j)

(* Mutant: the filter reported dirty whatever the fan state. *)
dirty_of_any_state(state, airflow_actual) == airflow_actual < 100

(* dirty = state > 0 and airflow_actual < 100 *)
dirty_of(state, airflow_actual) == state > 0 /\ airflow_actual < 100

SensorSteps(m, source) ==
    CASE m.pc = "get_sim_enabled" ->
           { IF ~get_sim_enabled(m)
             THEN [m EXCEPT !.pc = "sensors_done"]
             ELSE [m EXCEPT !.pc = "read_fan_state"] }
      [] m.pc = "read_fan_state" ->
           { [m EXCEPT !.loc.s_state = read_input(m, IR_FAN_STATE),
                       !.loc.jt = j,
                       !.loc.temp = temperature_of(read_input(m, IR_FAN_STATE), j),
                       !.pc = "set_temperature"] : j \in randint(-2, 2, source) }
      [] m.pc = "set_temperature" ->
           { [write_input(m, IR_TEMPERATURE, m.loc.temp)
                EXCEPT !.loc.jh = j,
                       !.loc.humidity = humidity_of(j),
                       !.pc = "set_humidity"] : j \in randint(-10, 10, source) }
      [] m.pc = "set_humidity" ->
           { [write_input(m, IR_HUMIDITY, m.loc.humidity)
                EXCEPT !.loc.ja = j,
                       !.loc.airflow_actual = airflow_of(m.loc.s_state, j),
                       !.pc = "set_airflow"] : j \in randint(-5, 5, source) }
      [] m.pc = "set_airflow" ->
           { [write_input(m, IR_AIRFLOW, m.loc.airflow_actual)
                EXCEPT !.loc.dirty = dirty_of(m.loc.s_state, m.loc.airflow_actual),
                       !.pc = "set_filter_dirty"] }
      [] m.pc = "set_filter_dirty" ->
           { [write_di(m, DI_FILTER_DIRTY, m.loc.dirty)
                EXCEPT !.pc = "sensors_done"] }
      [] OTHER -> {}

SensorPcs ==
    {"get_sim_enabled", "read_fan_state", "set_temperature", "set_humidity",
     "set_airflow", "set_filter_dirty"}

SensorEntry(m) ==
    [m EXCEPT !.pc = "get_sim_enabled",
              !.loc.s_state = 0, !.loc.temp = 0, !.loc.humidity = 0,
              !.loc.airflow_actual = 0, !.loc.dirty = FALSE,
              !.loc.jt = 0, !.loc.jh = 0, !.loc.ja = 0]

RECURSIVE RunSensors(_, _)
RunSensors(m, source) ==
    IF m.pc = "sensors_done" THEN {m}
    ELSE UNION {RunSensors(n, source) : n \in SensorSteps(m, source)}

----------------------------------------------------------------------------
(* Construction: DataModel.__init__ *)

(* A DataBank as pyModbusTCP creates it: every cell 0 / False. *)
Blank ==
    [ir |-> [a \in 0..(NumRegisters + SpareCells - 1) |-> 0],
     hr |-> [a \in 0..(NumRegisters + SpareCells - 1) |-> 0],
     co |-> [a \in 0..(NumBits + SpareCells - 1) |-> FALSE],
     di |-> [a \in 0..(NumBits + SpareCells - 1) |-> FALSE],
     loc |-> NoLocals,
     pc |-> "idle"]

(* Mutant: the banks left as they were found. *)
init_banks_skipped(m) == m

(* DataBank.set_input_registers(address, word_list) and its like: the    *)
(* cells address .. address + n - 1 are written when they all lie in the  *)
(* bank, none is otherwise.                                                *)
set_cells(cells, address, n, value) ==
    IF address >= 0 /\ address + n <= Cardinality(DOMAIN cells)
    THEN [a \in DOMAIN cells |->
             IF a >= address /\ a < address + n THEN value ELSE cells[a]]
    ELSE cells

init_banks(m) ==
    [m EXCEPT !.ir = set_cells(m.ir, 0, NumRegisters, 0),
              !.hr = set_cells(m.hr, 0, NumRegisters, 0),
              !.co = set_cells(m.co, 0, NumBits, FALSE),
              !.di = set_cells(m.di, 0, NumBits, FALSE)]

init_defaults(m) ==
    LET m1 == write_holding(m, HR_AIRFLOW_SP, 250)
        m2 == write_holding(m1, HR_TEMPERATURE_SP, 225)
        m3 == write_holding(m2, HR_FAN_MODE_CMD, 0)
        m4 == write_holding(m3, HR_FAN_RPM_SP, 900)
        m5 == write_holding(m4, HR_SIM_ENABLE, 1)
    IN  write_coil(m5, COIL_FAN_ENABLE, TRUE)

DataModel_init == init_defaults(init_banks(Blank))

(* Mutant: every instance makes a DataBank of its own. *)
self_db_fresh(db, fresh) == fresh

(* self._db = db or DataBank() *)
self_db(db, fresh) == IF db # "None" THEN db ELSE fresh

(* The instances dm1 = DataModel(db) and dm2 = DataModel(db) of the tests. *)
Instances == {1, 2}

db_of(dm) == self_db("db", IF dm = 1 THEN "DataBank_1" ELSE "DataBank_2")

(* Bound: the addresses accessed: below the bank, inside it, past its end. *)
AccessAddrs(bank) ==
    CASE bank = "input" -> {-1, IR_FAN_STATE, NumRegisters + SpareCells}
      [] bank = "holding" -> {-1, HR_FAN_RPM_SP, NumRegisters + SpareCells}
      [] bank = "coil" -> {-1, COIL_ALARM_RESET, NumBits + SpareCells}
      [] OTHER -> {-1, DI_FAN_RUNNING, NumBits + SpareCells}

(* The accessed cells as the constructor of instance dm has written them. *)
Written(m, dm) ==
    [bank \in Banks |->
        [a \in AccessAddrs(bank) \cap DOMAIN Cells(m, bank) |->
            [dm |-> dm, value |-> Cells(m, bank)[a]]]]

NoCall == [dm |-> 1, bank |-> "none", addr |-> 0, value |-> 0, raised |-> "none"]

InitStore ==
    /\ ir = DataModel_init.ir
    /\ hr = DataModel_init.hr
    /\ co = DataModel_init.co
    /\ di = DataModel_init.di
    /\ loc = DataModel_init.loc
    /\ pc = "idle"
    /\ op = "init"
    /\ ret = FALSE
    /\ seen = [state |-> 0, running |-> FALSE]
    /\ call = NoCall
    /\ unseen = FALSE
    /\ own = [made |-> FALSE]

----------------------------------------------------------------------------
(* The API called sequentially, each call run to its end.                  *)

(* Bound: the values written to each holding register the handlers read. *)
HoldingValues(addr) ==
    IF addr = HR_FAN_MODE_CMD THEN ModeValues
    ELSE IF addr = HR_FAN_RPM_SP THEN RpmSpValues
    ELSE SimEnableValues

UsedCoils == {COIL_FAN_ENABLE, COIL_FAN_HIGH_REQ, COIL_ALARM_RESET}

Idle(m) == [m EXCEPT !.pc = "idle"]

WriteHolding(addr, value) ==
    /\ pc = "idle"
    /\ Install(write_holding(Mach, addr, value))
    /\ op' = "write"
    /\ UNCHANGED <<rand, ret, is_run, main_pc, seen, call, last, unseen, own>>

WriteCoil(addr, value) ==
    /\ pc = "idle"
    /\ Install(write_coil(Mach, addr, value))
    /\ op' = "write"
    /\ UNCHANGED <<rand, ret, is_run, main_pc, seen, call, last, unseen, own>>

FanUpdate ==
    /\ pc = "idle"
    /\ \E n \in RunFan(FanEntry(Mach), rand) : Install(Idle(n))
    /\ op' = "fan_update"
    /\ UNCHANGED <<rand, ret, is_run, main_pc, seen, call, last, unseen, own>>

SensorUpdate ==
    /\ pc = "idle"
    /\ \E n \in RunSensors(SensorEntry(Mach), rand) : Install(Idle(n))
    /\ op' = "sensor_update"
    /\ UNCHANGED <<rand, ret, is_run, main_pc, seen, call, last, unseen, own>>

RECURSIVE RunConsume(_)
RunConsume(m) ==
    IF m.pc = "returned" THEN {m}
    ELSE UNION {RunConsume(n) : n \in consume_alarm_reset(m, "returned", "returned")}

ConsumeAlarmReset ==
    /\ pc = "idle"
    /\ \E n \in RunConsume([Mach EXCEPT !.pc = "consume_alarm_reset"]) :
          /\ Install(Idle(n))
          /\ ret' = n.loc.consumed
    /\ op' = "consume_alarm_reset"
    /\ UNCHANGED <<rand, is_run, main_pc, seen, call, last, unseen, own>>

RECURSIVE RunSetFanState(_, _)
RunSetFanState(m, state) ==
    IF m.pc = "returned" THEN {m}
    ELSE UNION {RunSetFanState(n, state) : n \in set_fan_state(m, state, "returned")}

FanStates == {0, 1, 2}

SetFanState(state) ==
    /\ pc = "idle"
    /\ \E n \in RunSetFanState([Mach EXCEPT !.pc = "set_fan_state"], state) :
          /\ Install(Idle(n))
          /\ last' = [last EXCEPT
                         !["input"][IR_FAN_STATE] = [dm |-> 1, value |-> state],
                         !["di"][DI_FAN_RUNNING] =
                             [dm |-> 1, value |-> n.di[DI_FAN_RUNNING]]]
    /\ op' = "set_fan_state"
    /\ call' = [dm |-> 1, bank |-> "input", addr |-> IR_FAN_STATE,
                value |-> state, raised |-> "none"]
    /\ UNCHANGED <<rand, ret, is_run, main_pc, seen, unseen, own>>

InitSeq ==
    /\ InitStore
    /\ last = Written(DataModel_init, 1)
    /\ rand \in {"random", "mock"}
    /\ is_run = FALSE
    /\ main_pc = "test"

(* The fan controller and the cells it reads and writes. *)
NextFan ==
    \/ \E addr \in {HR_FAN_MODE_CMD, HR_FAN_RPM_SP} :
          \E value \in HoldingValues(addr) : WriteHolding(addr, value)
    \/ \E addr \in UsedCoils : \E value \in BOOLEAN : WriteCoil(addr, value)
    \/ FanUpdate
    \/ ConsumeAlarmReset

SpecFan == InitSeq /\ [][NextFan]_vars

(* The sensor simulator and the cells it reads and writes. *)
NextSensors ==
    \/ \E value \in HoldingValues(HR_SIM_ENABLE) : WriteHolding(HR_SIM_ENABLE, value)
    \/ \E state \in FanStates : SetFanState(state)
    \/ SensorUpdate

SpecSensors == InitSeq /\ [][NextSensors]_vars

----------------------------------------------------------------------------
(* The generic single-cell helpers, called through two instances made     *)
(* over one DataBank (test_share_existing_databank), inside and outside   *)
(* the banks.                                                              *)

(* Bound: the values written: 16-bit words to registers, booleans to bits. *)
AccessValues(bank) ==
    IF bank \in {"input", "holding"} THEN {0, 1234} ELSE BOOLEAN

(* The store instance dm works on: the one given to DataModel(db), which  *)
(* is the one instance 1 holds, or a DataBank of its own.                  *)
StoreOf(dm) ==
    IF db_of(dm) = db_of(1) THEN Mach
    ELSE LET o == IF own.made THEN own ELSE DataModel_init
         IN  [ir |-> o.ir, hr |-> o.hr, co |-> o.co, di |-> o.di,
              loc |-> loc, pc |-> pc]

InstallFor(dm, m) ==
    IF db_of(dm) = db_of(1)
    THEN Install(m) /\ own' = own
    ELSE /\ own' = [made |-> TRUE,
                    ir |-> m.ir, hr |-> m.hr, co |-> m.co, di |-> m.di]
         /\ UNCHANGED <<ir, hr, co, di, loc, pc>>

(* dm.read_input(addr), dm.read_holding(addr), dm.read_coil(addr),         *)
(* dm.read_di(addr): the value of the cell, or IndexError.                 *)
ReadCell(dm, bank, addr) ==
    /\ pc = "idle"
    /\ IF raises_IndexError(StoreOf(dm), bank, addr)
       THEN /\ ret' = "None"
            /\ call' = [dm |-> dm, bank |-> bank, addr |-> addr, value |-> 0,
                        raised |-> "IndexError"]
       ELSE /\ ret' = read(StoreOf(dm), bank, addr)
            /\ call' = [dm |-> dm, bank |-> bank, addr |-> addr, value |-> 0,
                        raised |-> "none"]
    /\ op' = "read_cell"
    /\ UNCHANGED <<ir, hr, co, di, loc, pc, rand, is_run, main_pc, seen,
                   last, unseen, own>>

(* dm.write_input(addr, value), dm.write_holding(addr, value),             *)
(* dm.write_coil(addr, value), dm.write_di(addr, value): what the DataBank *)
(* answers is dropped, the call returns None.                              *)
WriteCell(dm, bank, addr, value) ==
    /\ pc = "idle"
    /\ InstallFor(dm, write(StoreOf(dm), bank, addr, value))
    /\ call' = [dm |-> dm, bank |-> bank, addr |-> addr, value |-> value,
                raised |-> "none"]
    /\ last' = IF addr \in DOMAIN last[bank]
               THEN [last EXCEPT ![bank][addr] = [dm |-> dm, value |-> value]]
               ELSE last
    /\ op' = "write_cell"
    /\ ret' = "None"
    /\ UNCHANGED <<rand, is_run, main_pc, seen, unseen>>

(* DataModel(db) once more over the store in use: _init_banks and          *)
(* _init_defaults run on it again.                                         *)
Construct(dm) ==
    /\ pc = "idle"
    /\ InstallFor(dm, init_defaults(init_banks(StoreOf(dm))))
    /\ call' = [NoCall EXCEPT !.dm = dm]
    /\ last' = Written(init_defaults(init_banks(StoreOf(dm))), dm)
    /\ op' = "init"
    /\ UNCHANGED <<rand, ret, is_run, main_pc, seen, unseen>>

InitAccess ==
    /\ InitStore
    /\ last = Written(DataModel_init, 2)
    /\ rand = "random"
    /\ is_run = FALSE
    /\ main_pc = "test"

NextAccess ==
    \/ \E dm \in Instances : \E bank \in Banks : \E addr \in AccessAddrs(bank) :
          ReadCell(dm, bank, addr)
    \/ \E dm \in Instances : \E bank \in Banks : \E addr \in AccessAddrs(bank) :
          \E value \in AccessValues(bank) : WriteCell(dm, bank, addr, value)
    \/ \E dm \in Instances : Construct(dm)
    \/ \E state \in FanStates : SetFanState(state)

SpecAccess == InitAccess /\ [][NextAccess]_vars

(* Resetting the store in use: dm._init_banks() called again               *)
(* (test_databank_behavior), the constructor run again, after writes to   *)
(* cells _init_banks writes and to cells past them.                        *)

(* Bound: the cells written: one that _init_banks writes, the first past  *)
(* those.                                                                  *)
ResetAddrs(bank) ==
    CASE bank = "input" -> {IR_FAN_STATE, NumRegisters}
      [] bank = "holding" -> {HR_FAN_RPM_SP, NumRegisters}
      [] bank = "coil" -> {COIL_ALARM_RESET, NumBits}
      [] OTHER -> {DI_FAN_RUNNING, NumBits}

(* dm._init_banks() *)
InitBanks ==
    /\ pc = "idle"
    /\ Install(init_banks(Mach))
    /\ call' = NoCall
    /\ last' = Written(init_banks(Mach), 1)
    /\ op' = "init_banks"
    /\ ret' = "None"
    /\ UNCHANGED <<rand, is_run, main_pc, seen, unseen, own>>

NextReset ==
    \/ \E bank \in Banks : \E addr \in ResetAddrs(bank) :
          \E value \in AccessValues(bank) : WriteCell(1, bank, addr, value)
    \/ InitBanks
    \/ Construct(1)

SpecReset == InitAccess /\ [][NextReset]_vars

----------------------------------------------------------------------------
(* main(): the server, the background loop thread and the Modbus clients.  *)
(* Every step is one access of the store; the loop thread's position is    *)
(* pc ("idle": in time.sleep or at the test of server.is_run).             *)

(* Bound: the values the clients write in the interleaved runs. *)
ClientValues(addr) ==
    IF addr = HR_FAN_MODE_CMD THEN {0, 2}
    ELSE IF addr = HR_FAN_RPM_SP THEN {160, 900}
    ELSE {0, 1}

(* server.start() *)
ServerStart ==
    /\ main_pc = "start"
    /\ main_pc' = "serve"
    /\ is_run' = TRUE
    /\ UNCHANGED <<ir, hr, co, di, loc, pc, rand, op, ret, seen, call, last, unseen, own>>

(* KeyboardInterrupt: server.stop() *)
ServerStop ==
    /\ main_pc = "serve"
    /\ main_pc' = "stopped"
    /\ is_run' = FALSE
    /\ UNCHANGED <<ir, hr, co, di, loc, pc, rand, op, ret, seen, call, last, unseen, own>>

(* main() returns: the interpreter exits and the daemon thread with it. *)
ProcessExit ==
    /\ main_pc = "stopped"
    /\ main_pc' = "exited"
    /\ UNCHANGED <<ir, hr, co, di, loc, pc, rand, op, ret, is_run, seen, call, last, unseen, own>>

(* if server.is_run: fan.update() is entered *)
LoopFanEnter ==
    /\ main_pc # "exited"
    /\ pc = "idle"
    /\ is_run
    /\ Install(FanEntry(Mach))
    /\ UNCHANGED <<rand, op, ret, is_run, main_pc, seen, call, last, unseen, own>>

LoopFanStep ==
    /\ main_pc # "exited"
    /\ pc \in FanPcs
    /\ \E n \in FanSteps(Mach, rand) : Install(n)
    /\ unseen' = IF pc = "consume_alarm_reset" /\ read_coil(Mach, COIL_ALARM_RESET)
                 THEN FALSE
                 ELSE unseen
    /\ UNCHANGED <<rand, op, ret, is_run, main_pc, seen, call, last, own>>

(* fan.update() has returned: sensors.update() is entered *)
LoopSensorsEnter ==
    /\ main_pc # "exited"
    /\ pc = "fan_done"
    /\ Install(SensorEntry([Mach EXCEPT !.loc = NoLocals]))
    /\ UNCHANGED <<rand, op, ret, is_run, main_pc, seen, call, last, unseen, own>>

LoopSensorsStep ==
    /\ main_pc # "exited"
    /\ pc \in SensorPcs
    /\ \E n \in SensorSteps(Mach, rand) : Install(n)
    /\ UNCHANGED <<rand, op, ret, is_run, main_pc, seen, call, last, unseen, own>>

(* sensors.update() has returned: time.sleep(interval) *)
LoopSleep ==
    /\ main_pc # "exited"
    /\ pc = "sensors_done"
    /\ Install([Mach EXCEPT !.pc = "idle", !.loc = NoLocals])
    /\ UNCHANGED <<rand, op, ret, is_run, main_pc, seen, call, last, unseen, own>>

(* A client's write of one holding register, served by the running server. *)
ClientWriteHolding(addr, value) ==
    /\ is_run
    /\ Install(write_holding(Mach, addr, value))
    /\ UNCHANGED <<rand, op, ret, is_run, main_pc, seen, call, last, unseen, own>>

ClientWriteCoil(addr, value) ==
    /\ is_run
    /\ Install(write_coil(Mach, addr, value))
    /\ unseen' = IF addr = COIL_ALARM_RESET THEN value ELSE unseen
    /\ UNCHANGED <<rand, op, ret, is_run, main_pc, seen, call, last, own>>

(* A client polls the fan: it reads the fan state input register and the  *)
(* fan running discrete input, its two requests served one after the      *)
(* other with no step of the loop thread between them.                     *)
ClientReadFan ==
    /\ is_run
    /\ seen' = [state |-> read_input(Mach, IR_FAN_STATE),
                running |-> read_di(Mach, DI_FAN_RUNNING)]
    /\ UNCHANGED <<ir, hr, co, di, loc, pc, rand, op, ret, is_run, main_pc,
                   call, last, unseen, own>>

Init ==
    /\ InitStore
    /\ last = Written(DataModel_init, 1)
    /\ rand = "centre"
    /\ is_run = FALSE
    /\ main_pc = "start"

Next ==
    \/ ServerStart
    \/ ServerStop
    \/ ProcessExit
    \/ LoopFanEnter
    \/ LoopFanStep
    \/ LoopSensorsEnter
    \/ LoopSensorsStep
    \/ LoopSleep
    \/ \E addr \in {HR_FAN_MODE_CMD, HR_FAN_RPM_SP, HR_SIM_ENABLE} :
          \E value \in ClientValues(addr) : ClientWriteHolding(addr, value)
    \/ \E addr \in UsedCoils : \E value \in BOOLEAN : ClientWriteCoil(addr, value)
    \/ ClientReadFan

Spec == Init /\ [][Next]_vars

(* The loop thread: one step of the `while True` body of main.loop. *)
Loop ==
    \/ LoopFanEnter
    \/ LoopFanStep
    \/ LoopSensorsEnter
    \/ LoopSensorsStep
    \/ LoopSleep

(* Bound: the values the clients write in the fair runs; the RPM setpoint *)
(* of 50 gives a running fan a fault.                                      *)
LiveValues(addr) ==
    IF addr = HR_FAN_MODE_CMD THEN {0, 2}
    ELSE IF addr = HR_FAN_RPM_SP THEN {50, 160}
    ELSE {0, 1}

(* main() with the loop thread scheduled fairly: the thread is a daemon    *)
(* thread of the interpreter, which hands it the processor again and again *)
(* for as long as it can take a step; the clients and the interrupt are    *)
(* under no such obligation.                                                *)
NextLive ==
    \/ ServerStart
    \/ ServerStop
    \/ ProcessExit
    \/ Loop
    \/ \E addr \in {HR_FAN_MODE_CMD, HR_FAN_RPM_SP, HR_SIM_ENABLE} :
          \E value \in LiveValues(addr) : ClientWriteHolding(addr, value)
    \/ \E addr \in UsedCoils : \E value \in BOOLEAN : ClientWriteCoil(addr, value)

SpecLive == Init /\ [][NextLive]_vars /\ WF_vars(Loop)

----------------------------------------------------------------------------
(* Both updates, called in any order, between writes to every holding     *)
(* register and every coil of the address map; the jitter is the centre   *)
(* of its range, the cells written do not depend on it.                    *)
AllHolding ==
    {HR_AIRFLOW_SP, HR_TEMPERATURE_SP, HR_FAN_MODE_CMD, HR_FAN_RPM_SP, HR_SIM_ENABLE}

InitUpdates ==
    /\ InitStore
    /\ last = Written(DataModel_init, 1)
    /\ rand = "centre"
    /\ is_run = FALSE
    /\ main_pc = "test"

NextUpdates ==
    \/ \E addr \in AllHolding : \E value \in ClientValues(addr) :
          WriteHolding(addr, value)
    \/ \E addr \in UsedCoils : \E value \in BOOLEAN : WriteCoil(addr, value)
    \/ FanUpdate
    \/ SensorUpdate

SpecUpdates == InitUpdates /\ [][NextUpdates]_vars

----------------------------------------------------------------------------
(* One tick of the loop as one step: fan.update() then sensors.update(),   *)
(* with the clients' writes between the ticks. The input registers and     *)
(* the discrete inputs are written by the loop thread alone, and each tick *)
(* reads every coil and holding register at most once, so what a tick      *)
(* leaves in them is what a tick run in one piece leaves.                  *)

(* Mutant: the two updates of a tick in the other order. *)
tick_sensors_first(m, source) ==
    UNION { RunFan(FanEntry(n), source) :
              n \in { [k EXCEPT !.pc = "fan_done"] :
                        k \in RunSensors(SensorEntry(m), source) } }

(* fan.update(); sensors.update() *)
tick(m, source) ==
    UNION { RunSensors(SensorEntry([n EXCEPT !.loc = NoLocals]), source) :
              n \in RunFan(FanEntry(m), source) }

Tick ==
    /\ is_run
    /\ pc = "idle"
    /\ \E n \in tick(Mach, rand) : Install(Idle(n))
    /\ op' = "tick"
    /\ UNCHANGED <<rand, ret, is_run, main_pc, seen, call, last, unseen, own>>

InitTick ==
    /\ InitStore
    /\ last = Written(DataModel_init, 1)
    /\ rand = "random"
    /\ is_run = TRUE
    /\ main_pc = "serve"

NextTick ==
    \/ \E value \in ClientValues(HR_SIM_ENABLE) : WriteHolding(HR_SIM_ENABLE, value)
    \/ \E addr \in {COIL_FAN_ENABLE, COIL_FAN_HIGH_REQ} :
          \E value \in BOOLEAN : WriteCoil(addr, value)
    \/ Tick

SpecTick == InitTick /\ [][NextTick]_vars

----------------------------------------------------------------------------
(* Properties *)

fan_enable == co[COIL_FAN_ENABLE]
fan_high_requested == co[COIL_FAN_HIGH_REQ]
alarm_reset == co[COIL_ALARM_RESET]
fan_mode_cmd == hr[HR_FAN_MODE_CMD]
fan_rpm_sp == hr[HR_FAN_RPM_SP]
fan_state == ir[IR_FAN_STATE]
fan_rpm == ir[IR_FAN_RPM]
fan_running == di[DI_FAN_RUNNING]
fan_fault == di[DI_FAN_FAULT]

(* C1: one FanController.update() writes fan state 0 when fan-enable is    *)
(* false; otherwise the mode command when it is 1 or 2; otherwise 2 when   *)
(* fan-high-request is true and 1 when it is false, whatever 16-bit value  *)
(* the mode command holds.                                                 *)
C1_FanStateDerivation ==
    [][op' = "fan_update" =>
         fan_state' = IF ~fan_enable THEN 0
                      ELSE IF fan_mode_cmd = 1 \/ fan_mode_cmd = 2 THEN fan_mode_cmd
                      ELSE IF fan_high_requested THEN 2 ELSE 1]_vars

(* An update with a mode command above 2 has fallen back to the coil. *)
C1_Witness ==
    /\ op = "fan_update"
    /\ fan_enable /\ fan_mode_cmd = 65535 /\ fan_high_requested
    /\ fan_state = 2

(* C2: between the calls of the API, fan running DI is true if and only if *)
(* fan state IR is above 0.                                                *)
C2_RunningIffState == fan_running = (fan_state > 0)

C2_Witness == op = "fan_update" /\ fan_state = 2 /\ fan_running

(* C3: a client that reads the fan state and the running bit while the     *)
(* loop thread runs never sees the state updated and the running bit       *)
(* still that of the previous state.                                       *)
C3_NoTornRead == seen.running = (seen.state > 0)

(* C4: consume_alarm_reset() returns the value the alarm-reset coil held   *)
(* and leaves the coil false; the coil becomes true again only by a write. *)
C4_ConsumeOnce ==
    [][/\ op' = "consume_alarm_reset" =>
             (ret' = alarm_reset /\ ~alarm_reset')
       /\ (~alarm_reset /\ alarm_reset') => op' = "write"]_vars

(* A consumption that returned true and left the coil false. *)
C4_Witness == op = "consume_alarm_reset" /\ ret /\ ~alarm_reset

(* C5: an update that finds the alarm-reset coil true ends with fault DI   *)
(* false and the coil false, even if the fault condition holds in it.      *)
C5_ResetHasFinalSay ==
    [][(op' = "fan_update" /\ alarm_reset) =>
          (~fan_fault' /\ ~alarm_reset')]_vars

(* An update that computed a fault and consumed the reset. *)
C5_Witness ==
    /\ op = "fan_update"
    /\ loc.consumed /\ loc.fault
    /\ ~fan_fault /\ ~alarm_reset

(* C6: after an update that consumes no alarm reset, fault DI is true if   *)
(* and only if the derived state is not OFF and the RPM computed in that   *)
(* update is below 100.                                                    *)
C6_FaultCondition ==
    [][(op' = "fan_update" /\ ~alarm_reset) =>
          fan_fault' = (fan_state' # 0 /\ loc'.rpm_actual < 100)]_vars

(* A running fan below 100 RPM raised the fault, none was consumed. *)
C6_Witness ==
    /\ op = "fan_update"
    /\ ~loc.consumed
    /\ fan_state = 1 /\ loc.rpm_actual = 96
    /\ fan_fault

(* C7: after an update with jitter j, fan RPM IR is 0 when OFF,            *)
(* max(0, floor(rpm_setpoint * 6 / 10) + j) when LOW and                   *)
(* max(0, rpm_setpoint + j) when HIGH.                                     *)
C7_ActualRpm ==
    [][op' = "fan_update" =>
         fan_rpm' = IF fan_state' = 0 THEN 0
                    ELSE IF fan_state' = 1
                         THEN Max(0, ((fan_rpm_sp * 6) \div 10) + loc'.jitter)
                         ELSE Max(0, fan_rpm_sp + loc'.jitter)]_vars

sim_enable == hr[HR_SIM_ENABLE]
airflow == ir[IR_AIRFLOW]
temperature == ir[IR_TEMPERATURE]
humidity == ir[IR_HUMIDITY]
filter_dirty == di[DI_FILTER_DIRTY]

(* C8: with the sim-enable register at 0, SensorSimulator.update() writes  *)
(* nothing: every cell of every bank keeps its value.                      *)
C8_SimulationDisabled ==
    [][(op' = "sensor_update" /\ sim_enable = 0) =>
          (ir' = ir /\ hr' = hr /\ co' = co /\ di' = di)]_vars

(* A disabled update has left the airflow of LOW in place under HIGH. *)
C8_Witness ==
    /\ op = "sensor_update"
    /\ sim_enable = 0
    /\ fan_state = 2 /\ airflow = 200 /\ temperature = 220

(* C9: an enabled SensorSimulator.update() writes temperature              *)
(* min(300, max(150, 225 + (30 if state == 0 else -5 * state) + j)), so a  *)
(* value of 150..300 whatever j is, and 255 / 220 / 215 for j = 0.         *)
C9_Temperature ==
    [][(op' = "sensor_update" /\ sim_enable = 1) =>
          /\ temperature' =
                Min(300, Max(150, 225 + (IF fan_state = 0 THEN 30 ELSE -5 * fan_state)
                                      + loc'.jt))
          /\ temperature' >= 150 /\ temperature' <= 300
          /\ loc'.jt = 0 =>
                temperature' = IF fan_state = 0 THEN 255
                               ELSE IF fan_state = 1 THEN 220 ELSE 215]_vars

(* The upper clamp has acted: OFF with a jitter of 100 gives 300. *)
C9_Witness ==
    /\ op = "sensor_update"
    /\ sim_enable = 1
    /\ fan_state = 0 /\ loc.jt = 100 /\ temperature = 300

(* C10: an enabled SensorSimulator.update() writes airflow                 *)
(* max(0, target + j), target 0 / 200 / 350 by fan state, never negative,  *)
(* and humidity 500 + j' with no clamp.                                    *)
C10_AirflowHumidity ==
    [][(op' = "sensor_update" /\ sim_enable = 1) =>
          /\ airflow' =
                Max(0, (IF fan_state = 0 THEN 0
                        ELSE IF fan_state = 1 THEN 200 ELSE 350) + loc'.ja)
          /\ airflow' >= 0
          /\ humidity' = 500 + loc'.jh]_vars

(* The floor has acted under LOW, and the humidity is left above 510. *)
C10_Witness ==
    /\ op = "sensor_update"
    /\ sim_enable = 1
    /\ fan_state = 1 /\ loc.ja = -300 /\ airflow = 0
    /\ loc.jh = 100 /\ humidity = 600

(* C11: after an enabled SensorSimulator.update(), filter-dirty DI is true *)
(* if and only if the fan state read in the update is not 0 and the        *)
(* airflow written in it is below 100; airflow 0 under state 0 leaves it   *)
(* false.                                                                  *)
C11_DirtyFilter ==
    [][(op' = "sensor_update" /\ sim_enable = 1) =>
          /\ filter_dirty' = (fan_state # 0 /\ airflow' < 100)
          /\ (fan_state = 0 /\ airflow' = 0) => ~filter_dirty']_vars

(* A running fan with the airflow floored at 0 has set the filter dirty. *)
C11_Witness ==
    /\ op = "sensor_update"
    /\ sim_enable = 1
    /\ fan_state = 1 /\ airflow = 0
    /\ filter_dirty

(* C12: a generic access outside the bank, read or write, on any of the   *)
(* four banks signals the failure and leaves the store as it was.          *)
C12_OutOfRangeSignalled ==
    [][(op' \in {"read_cell", "write_cell"}
           /\ call'.addr \notin DOMAIN Cells(Mach, call'.bank)) =>
          /\ call'.raised # "none"
          /\ ir' = ir /\ hr' = hr /\ co' = co /\ di' = di]_vars

(* C13: right after DataModel is constructed, airflow setpoint is 250,    *)
(* temperature setpoint 225, fan-mode-cmd 0, fan RPM setpoint 900,         *)
(* sim-enable 1 and fan-enable true, and every other cell of input         *)
(* registers 0..31, holding registers 0..31, coils 0..15 and discrete      *)
(* inputs 0..15 is 0 or false.                                             *)
C13_DefaultInitialization ==
    op = "init" =>
       /\ hr[HR_AIRFLOW_SP] = 250
       /\ hr[HR_TEMPERATURE_SP] = 225
       /\ hr[HR_FAN_MODE_CMD] = 0
       /\ hr[HR_FAN_RPM_SP] = 900
       /\ hr[HR_SIM_ENABLE] = 1
       /\ co[COIL_FAN_ENABLE] = TRUE
       /\ \A a \in 0..31 : ir[a] = 0
       /\ \A a \in (0..31) \ {HR_AIRFLOW_SP, HR_TEMPERATURE_SP, HR_FAN_RPM_SP,
                                HR_SIM_ENABLE} : hr[a] = 0
       /\ \A a \in (0..15) \ {COIL_FAN_ENABLE} : co[a] = FALSE
       /\ \A a \in 0..15 : di[a] = FALSE

(* The second instance has been constructed over the store in use. *)
C13_Witness == op = "init" /\ call.dm = 2 /\ hr[HR_FAN_RPM_SP] = 900

(* C14: with two instances over one store, a read through one instance    *)
(* returns what the other instance wrote to that cell last, on every bank  *)
(* and in both directions.                                                 *)
C14_SharedStore ==
    [][(op' = "read_cell" /\ call'.raised = "none"
           /\ last[call'.bank][call'.addr].dm # call'.dm) =>
          ret' = last[call'.bank][call'.addr].value]_vars

(* Instance 2 has read the 1234 instance 1 wrote (the test's case). *)
C14_Witness ==
    /\ op = "read_cell"
    /\ call.dm = 2 /\ call.bank = "holding" /\ call.addr = HR_FAN_RPM_SP
    /\ last["holding"][HR_FAN_RPM_SP] = [dm |-> 1, value |-> 1234]
    /\ ret = 1234

(* C15: set_fan_state(s), s in 0..2, leaves fan state IR = s and fan       *)
(* running DI = (s > 0) whatever they held, and changes no other cell.     *)
C15_SetFanState ==
    [][op' = "set_fan_state" =>
         /\ fan_state' = call'.value
         /\ fan_running' = (call'.value > 0)
         /\ \A a \in (DOMAIN ir) \ {IR_FAN_STATE} : ir'[a] = ir[a]
         /\ \A a \in (DOMAIN di) \ {DI_FAN_RUNNING} : di'[a] = di[a]
         /\ hr' = hr /\ co' = co]_vars

(* set_fan_state(0) has run after generic writes through instance 2. *)
C15_Witness ==
    /\ op = "set_fan_state"
    /\ call.value = 0 /\ fan_state = 0 /\ ~fan_running
    /\ last["coil"][COIL_ALARM_RESET] = [dm |-> 2, value |-> TRUE]

(* C16: with client writes interleaved with consume_alarm_reset, a set of *)
(* the alarm-reset coil that the controller has not read yet is still in   *)
(* the coil: no set made between the consumer's read and its clearing      *)
(* write is erased unobserved.                                             *)
C16_NoLostSet == unseen => alarm_reset

(* C17, as claimed: at the end of a tick with simulation enabled the      *)
(* airflow is that of the fan state written in the same tick: 0 and        *)
(* filter-dirty false under state 0, 195..205 under 1, 345..355 under 2.   *)
C17_TickOrdering_Claimed ==
    [][(op' = "tick" /\ sim_enable = 1) =>
          /\ fan_state' = 0 => (airflow' = 0 /\ ~filter_dirty')
          /\ fan_state' = 1 => (airflow' >= 195 /\ airflow' <= 205)
          /\ fan_state' = 2 => (airflow' >= 345 /\ airflow' <= 355)]_vars

(* C17, amended: the same, with the airflow under state 0 within 0..5      *)
(* (max(0, 0 + jitter), jitter in -5..5).                                  *)
C17_TickOrdering ==
    [][(op' = "tick" /\ sim_enable = 1) =>
          /\ fan_state' = 0 =>
                (airflow' >= 0 /\ airflow' <= 5 /\ ~filter_dirty')
          /\ fan_state' = 1 => (airflow' >= 195 /\ airflow' <= 205)
          /\ fan_state' = 2 => (airflow' >= 345 /\ airflow' <= 355)]_vars

(* A tick has switched the fan off and left the airflow of OFF, jitter 5. *)
C17_Witness ==
    /\ op = "tick"
    /\ sim_enable = 1
    /\ ~fan_enable /\ fan_state = 0 /\ airflow = 5 /\ ~filter_dirty

(* C18: an update that follows, with no write between, an update that     *)
(* consumed the alarm reset over a computed fault, and in which the fault  *)
(* condition holds again (state not OFF, RPM below 100), ends with fault   *)
(* DI true.                                                                *)
C18_ResetMasksOneTick ==
    [][(/\ op = "fan_update" /\ loc.consumed /\ loc.fault
        /\ op' = "fan_update"
        /\ loc'.state # 0 /\ loc'.rpm_actual < 100) => fan_fault']_vars

(* An update has consumed the reset and masked the fault it computed; the *)
(* coil is false and the inputs still give a fault: the next update is due. *)
C18_Witness ==
    /\ op = "fan_update"
    /\ loc.consumed /\ loc.fault /\ ~fan_fault
    /\ ~alarm_reset
    /\ fan_state = 1 /\ fan_rpm_sp = 160 /\ fan_rpm = 96

(* C19: fan state IR is 0, 1 or 2 in every reachable state, whatever      *)
(* 16-bit values are written to the holding registers (mode commands       *)
(* outside 0..2 among them) and whatever booleans to the coils.            *)
C19_FanStateRange == fan_state \in {0, 1, 2}

(* An update under a mode command of 3 has fallen back to LOW. *)
C19_Witness ==
    /\ op = "fan_update"
    /\ fan_enable /\ fan_mode_cmd = 3 /\ ~fan_high_requested
    /\ fan_state = 1

(* C20: with the jitter within its bounds, the fan RPM that an update     *)
(* hands to set_fan_rpm fits the 16-bit cell and is stored as handed, for  *)
(* every setpoint of 0..65535.                                             *)
C20_FitsWord ==
    [][(op' = "fan_update" /\ rand = "random") =>
          /\ Max(0, loc'.rpm_actual) <= 65535
          /\ fan_rpm' = Max(0, loc'.rpm_actual)]_vars

(* C21: FanController.update() changes only fan state IR, fan RPM IR, fan *)
(* running DI, fan fault DI and the alarm-reset coil, that one only from   *)
(* true to false; SensorSimulator.update() changes only airflow,           *)
(* temperature and humidity IR and filter-dirty DI. Neither changes a      *)
(* holding register, the fan-enable coil or the fan-high-request coil.     *)
C21_UpdateFrames ==
    [][/\ op' = "fan_update" =>
             /\ hr' = hr
             /\ \A a \in (DOMAIN co) \ {COIL_ALARM_RESET} : co'[a] = co[a]
             /\ alarm_reset' => alarm_reset
             /\ \A a \in (DOMAIN ir) \ {IR_FAN_STATE, IR_FAN_RPM} : ir'[a] = ir[a]
             /\ \A a \in (DOMAIN di) \ {DI_FAN_RUNNING, DI_FAN_FAULT} :
                    di'[a] = di[a]
       /\ op' = "sensor_update" =>
             /\ hr' = hr
             /\ co' = co
             /\ \A a \in (DOMAIN ir) \ {IR_AIRFLOW, IR_TEMPERATURE, IR_HUMIDITY} :
                    ir'[a] = ir[a]
             /\ \A a \in (DOMAIN di) \ {DI_FILTER_DIRTY} : di'[a] = di[a]]_vars

(* Both updates have run after the client's writes: the setpoints and the *)
(* commands are as written, the alarm reset alone is consumed.             *)
C21_Witness ==
    /\ op = "sensor_update"
    /\ hr[HR_AIRFLOW_SP] = 1 /\ hr[HR_TEMPERATURE_SP] = 0
    /\ fan_mode_cmd = 2 /\ fan_rpm_sp = 160 /\ sim_enable = 1
    /\ fan_enable /\ fan_high_requested /\ ~alarm_reset
    /\ loc.consumed
    /\ fan_state = 2 /\ fan_rpm = 160 /\ airflow = 350

(* C22: _init_banks() leaves input and holding registers 0..31 at 0 and  *)
(* coils and discrete inputs 0..15 false, a second call right after it     *)
(* changes nothing, and _init_banks() followed by _init_defaults() leaves  *)
(* the store exactly as a fresh construction does, from any state.         *)
C22_InitBanksIdempotent ==
    [][/\ op' = "init_banks" =>
             /\ \A a \in 0..31 : ir'[a] = 0 /\ hr'[a] = 0
             /\ \A a \in 0..15 : co'[a] = FALSE /\ di'[a] = FALSE
       /\ (op = "init_banks" /\ op' = "init_banks") =>
             (ir' = ir /\ hr' = hr /\ co' = co /\ di' = di)
       /\ op' = "init" =>
             /\ ir' = DataModel_init.ir /\ hr' = DataModel_init.hr
             /\ co' = DataModel_init.co /\ di' = DataModel_init.di]_vars

(* C23: a tick in flight when the server is stopped finishes before the  *)
(* updates stop: when the process has exited, the loop thread is not       *)
(* inside a fan update, between the two updates or inside a sensor update. *)
C23_NoAbandonedTick == main_pc = "exited" => pc \in {"idle", "sensors_done"}

(* C24: while the server is running and the loop thread is scheduled       *)
(* fairly, every state in which the alarm-reset coil is true is followed   *)
(* by a state in which it is false, whatever the fan-enable coil, the mode *)
(* command, the simulation enable and the fault are: the coil is consumed  *)
(* by every tick, the ticks of an OFF fan among them.                      *)
C24_SelfClearing == alarm_reset ~> (~alarm_reset \/ ~is_run)

(* A tick of the running server has consumed the coil with the fan        *)
(* disabled and OFF, the mode command HIGH, the simulation disabled and    *)
(* the RPM setpoint one that faults a running fan.                          *)
C24_Witness ==
    /\ is_run
    /\ pc = "reset_fault"
    /\ loc.consumed
    /\ ~fan_enable /\ fan_state = 0 /\ fan_mode_cmd = 2
    /\ sim_enable = 0 /\ fan_rpm_sp = 50
    /\ ~alarm_reset

(* C25: with the jitter within -5..5 and the fan state within 0..2, the   *)
(* filter-dirty DI is false in every state reached from construction by   *)
(* ticks and client writes to holding registers and coils: a running fan   *)
(* has, after a tick that simulated, an airflow of 195 at least, above    *)
(* the threshold of 100.                                                   *)
C25_FilterNeverDirty ==
    /\ ~filter_dirty
    /\ (op = "tick" /\ sim_enable = 1 /\ fan_state # 0) => airflow >= 195

(* A tick has run the fan LOW under the lowest airflow jitter. *)
C25_Witness ==
    /\ op = "tick"
    /\ sim_enable = 1
    /\ fan_enable /\ fan_state = 1
    /\ airflow = 195
    /\ ~filter_dirty

(* C26: SensorSimulator.update() writes only when the sim-enable holding  *)
(* register is exactly 1: under every other value a client can write, a    *)
(* non-zero one such as 2 or 65535 included, the update leaves every cell  *)
(* of every bank as it was, so the sensor registers and the filter-dirty   *)
(* DI stay frozen.                                                          *)
C26_OnlyExactlyOne ==
    [][(op' = "sensor_update" /\ sim_enable # 1) =>
          (ir' = ir /\ hr' = hr /\ co' = co /\ di' = di)]_vars

(* An update under a sim-enable of 65535 has left the readings of an OFF  *)
(* fan in place under HIGH.                                                *)
C26_Witness ==
    /\ op = "sensor_update"
    /\ sim_enable = 65535
    /\ fan_state = 2 /\ airflow = 0 /\ temperature = 255 /\ humidity = 500

====
